---- MODULE Spec2Model ----
(***************************************************************************)
(* Model of ultralytics/yolo/utils/loss.py: wasserstein_loss,              *)
(* VarifocalLoss.forward, BboxLoss.__init__, BboxLoss.forward and          *)
(* BboxLoss._df_loss.                                                      *)
(*                                                                         *)
(* Tensor elements are exact rationals [num, den] (den > 0); den = 0       *)
(* encodes the non-finite floats: [1,0] = +inf, [-1,0] = -inf, [0,0] = nan.*)
(* A logit is stored as its exponential (a positive rational), so that     *)
(* sigmoid and softmax are exact; log, sqrt and exp are the numeric        *)
(* library's functions, evaluated on a fixed-point grid.                   *)
(***************************************************************************)
EXTENDS Integers, Sequences, FiniteSets, TLC

VARIABLES self, ctor, pc, args, tensors, locals, ret

vars == <<self, ctor, pc, args, tensors, locals, ret>>

(* ------------------------------ bounds --------------------------------- *)
\* rows n of the (n, 4) tensors given to wasserstein_loss
NRows == 2
\* elements of the score tensors given to VarifocalLoss.forward
NElems == 2
\* anchors of the tensors given to BboxLoss.forward
NAnchors == 2
\* largest reg_max a BboxLoss is constructed with
MaxRegMax == 2

(* ------------------------- float arithmetic ---------------------------- *)
Abs(x) == IF x < 0 THEN -x ELSE x

Sign(x) == IF x < 0 THEN -1 ELSE IF x = 0 THEN 0 ELSE 1

RECURSIVE GCD(_, _)
GCD(a, b) == IF b = 0 THEN a ELSE GCD(b, a % b)

Rat(n, d) ==
    IF d = 0 THEN [num |-> Sign(n), den |-> 0]
    ELSE LET g == GCD(Abs(n), Abs(d))
             s == Sign(d)
         IN  [num |-> (s * n) \div g, den |-> (s * d) \div g]

FromInt(k) == [num |-> k, den |-> 1]

Zero == FromInt(0)

One == FromInt(1)

IsFinite(x) == x.den # 0

IsInteger(x) == x.den = 1

\* sums and products cancel common factors first, to keep the integers small
RAdd(a, b) ==
    IF a.den = 0 \/ b.den = 0
    THEN Rat(a.num * b.den + b.num * a.den, a.den * b.den)
    ELSE LET g == GCD(a.den, b.den)
         IN  Rat(a.num * (b.den \div g) + b.num * (a.den \div g), (a.den \div g) * b.den)

RSub(a, b) == RAdd(a, [num |-> -b.num, den |-> b.den])

RMul(a, b) ==
    IF a.den = 0 \/ b.den = 0 \/ a.num = 0 \/ b.num = 0
    THEN Rat(a.num * b.num, a.den * b.den)
    ELSE LET g1 == GCD(Abs(a.num), b.den)
             g2 == GCD(Abs(b.num), a.den)
         IN  Rat((a.num \div g1) * (b.num \div g2), (a.den \div g2) * (b.den \div g1))

RDiv(a, b) == Rat(a.num * b.den, a.den * b.num)

RNeg(a) == [num |-> -a.num, den |-> a.den]

RLe(a, b) == a.num * b.den <= b.num * a.den

RLt(a, b) == a.num * b.den < b.num * a.den

RMin(a, b) == IF RLe(a, b) THEN a ELSE b

RMax(a, b) == IF RLe(a, b) THEN b ELSE a

RECURSIVE RPow(_, _)
RPow(a, k) == IF k = 0 THEN One ELSE RMul(a, RPow(a, k - 1))

RECURSIVE RSum(_)
RSum(s) == IF Len(s) = 0 THEN Zero ELSE RAdd(s[1], RSum(Tail(s)))

RECURSIVE ISum(_)
ISum(s) == IF Len(s) = 0 THEN 0 ELSE s[1] + ISum(Tail(s))

\* tensor.long(): conversion to integer truncates toward zero
Long(t) == Sign(t.num) * (Abs(t.num) \div t.den)

(* ------------------- numeric library, fixed point ---------------------- *)
\* 1000 * ln(k) for k = 1..16
LnMilli ==
    <<0, 693, 1099, 1386, 1609, 1792, 1946, 2079,
      2197, 2303, 2398, 2485, 2565, 2639, 2708, 2773>>

\* -ln(p) of a positive rational p
NegLn(p) == Rat(LnMilli[p.den] - LnMilli[p.num], 1000)

\* 1000 * exp(-k/32) for k = 0..32
ExpNegMilli ==
    <<1000, 969, 939, 910, 882, 855, 829, 803, 778, 754, 731,
      709, 687, 666, 645, 625, 606, 587, 569, 552, 535, 518,
      502, 487, 472, 457, 443, 430, 416, 404, 391, 379, 367>>

RECURSIVE ExpNegSteps(_)
ExpNegSteps(k) ==
    IF k <= 32 THEN ExpNegMilli[k + 1]
    ELSE (ExpNegMilli[33] * ExpNegSteps(k - 32)) \div 1000

\* torch.exp
TorchExp(y) ==
    IF ~IsFinite(y) THEN Rat(0, 0)
    ELSE IF y.num <= 0
         THEN Rat(ExpNegSteps(((-y.num) * 32) \div y.den), 1000)
         ELSE Rat(1000, ExpNegSteps((y.num * 32) \div y.den))

RECURSIVE ISqrtFrom(_, _)
ISqrtFrom(n, k) == IF (k + 1) * (k + 1) > n THEN k ELSE ISqrtFrom(n, k + 1)

\* torch.sqrt: nan below zero
TorchSqrt(q) ==
    IF ~IsFinite(q) \/ q.num < 0 THEN Rat(0, 0)
    ELSE Rat(ISqrtFrom((q.num * 1024) \div q.den, 0), 32)

\* tensor.sigmoid() of a logit stored as its exponential e
Sigmoid(e) == RDiv(e, RAdd(One, e))

\* F.binary_cross_entropy_with_logits(x, g, reduction="none"), one element
BCEWithLogits(e, g) ==
    RAdd(RMul(g, NegLn(Sigmoid(e))),
         RMul(RSub(One, g), NegLn(RSub(One, Sigmoid(e)))))

\* F.cross_entropy(row, idx, reduction="none"), one row of logits stored as
\* exponentials; the caller checks the class index (see IndexInRange)
CrossEntropy(row, idx) == NegLn(Rat(row[idx + 1], ISum(row)))

IndexInRange(row, idx) == idx \in 0..(Len(row) - 1)

(* --------------------------- wasserstein_loss -------------------------- *)
CenterDistance_NoEps(p, t, eps) ==
    LET whs0 == RSub(p[1], t[1])
        whs1 == RSub(p[2], t[2])
    IN  RAdd(RMul(whs0, whs0), RMul(whs1, whs1))

CenterDistance(p, t, eps) ==
    LET whs0 == RSub(p[1], t[1])
        whs1 == RSub(p[2], t[2])
    IN  RAdd(RAdd(RMul(whs0, whs0), RMul(whs1, whs1)), eps)

WhDistance_NoEpsOnTarget(p, t, eps) ==
    LET w1 == RAdd(p[3], eps)
        h1 == RAdd(p[4], eps)
        w2 == t[3]
        h2 == t[4]
    IN  RDiv(RAdd(RPow(RSub(w1, w2), 2), RPow(RSub(h1, h2), 2)), FromInt(4))

WhDistance(p, t, eps) ==
    LET w1 == RAdd(p[3], eps)
        h1 == RAdd(p[4], eps)
        w2 == RAdd(t[3], eps)
        h2 == RAdd(t[4], eps)
    IN  RDiv(RAdd(RPow(RSub(w1, w2), 2), RPow(RSub(h1, h2), 2)), FromInt(4))

wasserstein_loss(pred, target, eps, constant) ==
    LET wasserstein_2 ==
            [i \in DOMAIN pred |->
                RAdd(CenterDistance(pred[i], target[i], eps),
                     WhDistance(pred[i], target[i], eps))]
    IN  [ret     |-> [i \in DOMAIN pred |->
                        TorchExp(RDiv(RNeg(TorchSqrt(wasserstein_2[i])), constant))],
         locals  |-> [wasserstein_2 |-> wasserstein_2],
         tensors |-> [pred |-> pred, target |-> target]]

(* ------------------------- VarifocalLoss.forward ----------------------- *)
VarifocalWeight_Swapped(e, g, label, alpha, gamma) ==
    RAdd(RMul(RMul(alpha, RPow(Sigmoid(e), gamma)), label),
         RMul(g, RSub(One, label)))

VarifocalWeight(e, g, label, alpha, gamma) ==
    RAdd(RMul(RMul(alpha, RPow(Sigmoid(e), gamma)), RSub(One, label)),
         RMul(g, label))

VarifocalLoss_forward(pred_score, gt_score, label, alpha, gamma) ==
    LET weight == [i \in DOMAIN pred_score |->
                      VarifocalWeight(pred_score[i], gt_score[i], label[i], alpha, gamma)]
        loss   == RSum([i \in DOMAIN pred_score |->
                      RMul(BCEWithLogits(pred_score[i], gt_score[i]), weight[i])])
    IN  [ret     |-> loss,
         locals  |-> [weight |-> weight],
         tensors |-> [pred_score |-> pred_score, gt_score |-> gt_score, label |-> label]]

(* ------------------------------- BboxLoss ------------------------------ *)
BboxLoss_init_DropsFlag(reg_max, use_dfl) ==
    [reg_max |-> reg_max, use_dfl |-> FALSE]

BboxLoss_init(reg_max, use_dfl) ==
    [reg_max |-> reg_max, use_dfl |-> use_dfl]

\* metrics.bbox_iou(box1, box2, xywh=False), one pair of (x1, y1, x2, y2) boxes:
\* intersection over union (what CIoU=True subtracts from it is not modelled)
bbox_iou(b1, b2) ==
    LET iw    == RMax(Zero, RSub(RMin(b1[3], b2[3]), RMax(b1[1], b2[1])))
        ih    == RMax(Zero, RSub(RMin(b1[4], b2[4]), RMax(b1[2], b2[2])))
        inter == RMul(iw, ih)
        a1    == RMul(RSub(b1[3], b1[1]), RSub(b1[4], b1[2]))
        a2    == RMul(RSub(b2[3], b2[1]), RSub(b2[4], b2[2]))
    IN  RDiv(inter, RSub(RAdd(a1, a2), inter))

Clamp(x, lo, hi) == RMin(RMax(x, lo), hi)

\* tal.bbox2dist(anchor_points, bbox, reg_max): the (left, top, right, bottom)
\* distances from each anchor point to its box's sides, kept inside the bins
bbox2dist(anchor_points, bbox, reg_max) ==
    LET hi == RSub(FromInt(reg_max), Rat(1, 100))
    IN  [i \in DOMAIN bbox |->
            <<Clamp(RSub(anchor_points[i][1], bbox[i][1]), Zero, hi),
              Clamp(RSub(anchor_points[i][2], bbox[i][2]), Zero, hi),
              Clamp(RSub(bbox[i][3], anchor_points[i][1]), Zero, hi),
              Clamp(RSub(bbox[i][4], anchor_points[i][2]), Zero, hi)>>]

TargetRight_PlusTwo(tl) == tl + 2

TargetRight(tl) == tl + 1

WeightLeft_FromLeft(tr, t) == RSub(t, FromInt(tr - 1))

WeightLeft(tr, t) == RSub(FromInt(tr), t)

WeightRight(wl) == RSub(One, wl)

\* tl.view(-1): element (i, j) of an (n, k) tensor is row (i-1)*k + j
FlatIndex(target, i, j) == (i - 1) * Len(target[i]) + j

BboxLoss_df_loss(pred_dist, target) ==
    LET I  == DOMAIN target
        tl == [i \in I |-> [j \in DOMAIN target[i] |-> Long(target[i][j])]]
        tr == [i \in I |-> [j \in DOMAIN target[i] |-> TargetRight(tl[i][j])]]
        wl == [i \in I |-> [j \in DOMAIN target[i] |-> WeightLeft(tr[i][j], target[i][j])]]
        wr == [i \in I |-> [j \in DOMAIN target[i] |-> WeightRight(wl[i][j])]]
        ok == \A i \in I : \A j \in DOMAIN target[i] :
                 /\ IndexInRange(pred_dist[FlatIndex(target, i, j)], tl[i][j])
                 /\ IndexInRange(pred_dist[FlatIndex(target, i, j)], tr[i][j])
        term(i, j) ==
            RAdd(RMul(CrossEntropy(pred_dist[FlatIndex(target, i, j)], tl[i][j]), wl[i][j]),
                 RMul(CrossEntropy(pred_dist[FlatIndex(target, i, j)], tr[i][j]), wr[i][j]))
    IN  [status |-> IF ok THEN "ok" ELSE "IndexError",
         out    |-> IF ok
                    THEN [i \in I |->
                            RDiv(RSum([j \in DOMAIN target[i] |-> term(i, j)]),
                                 FromInt(Len(target[i])))]
                    ELSE <<>>,
         pred_dist |-> pred_dist, target |-> target,
         tl |-> tl, tr |-> tr, wl |-> wl, wr |-> wr]

\* x[fg_mask] / torch.masked_select(x, fg_mask): the rows of x the mask keeps
RECURSIVE MaskedSelect(_, _)
MaskedSelect(x, mask) ==
    IF Len(x) = 0 THEN <<>>
    ELSE (IF mask[1] THEN <<x[1]>> ELSE <<>>) \o MaskedSelect(Tail(x), Tail(mask))

RECURSIVE Flatten(_)
Flatten(x) == IF Len(x) = 0 THEN <<>> ELSE x[1] \o Flatten(Tail(x))

\* x.view(-1, cols)
View(x, cols) ==
    LET flat == Flatten(x)
    IN  [r \in 1..(Len(flat) \div cols) |-> SubSeq(flat, (r - 1) * cols + 1, r * cols)]

ForwardWeight_TotalSum(target_scores, fg_mask) ==
    LET total == RSum([i \in DOMAIN target_scores |-> RSum(target_scores[i])])
    IN  [k \in DOMAIN MaskedSelect(target_scores, fg_mask) |-> total]

ForwardWeight(target_scores, fg_mask) ==
    MaskedSelect([i \in DOMAIN target_scores |-> RSum(target_scores[i])], fg_mask)

IoULossTerm_NoComplement(iou, w) == RMul(iou, w)

IoULossTerm(iou, w) == RMul(RSub(One, iou), w)

Normalize_Guarded(total, target_scores_sum) ==
    IF target_scores_sum = Zero THEN Zero ELSE RDiv(total, target_scores_sum)

Normalize(total, target_scores_sum) == RDiv(total, target_scores_sum)

UseDfl_Always(slf) == TRUE

UseDfl(slf) == slf.use_dfl

BboxLoss_forward(slf, a) ==
    LET weight   == ForwardWeight(a.target_scores, a.fg_mask)
        pb       == MaskedSelect(a.pred_bboxes, a.fg_mask)
        tb       == MaskedSelect(a.target_bboxes, a.fg_mask)
        iou      == [k \in DOMAIN pb |-> bbox_iou(pb[k], tb[k])]
        loss_iou == Normalize(RSum([k \in DOMAIN iou |-> IoULossTerm(iou[k], weight[k])]),
                              a.target_scores_sum)
        target_ltrb == bbox2dist(a.anchor_points, a.target_bboxes, slf.reg_max)
        df       == BboxLoss_df_loss(View(MaskedSelect(a.pred_dist, a.fg_mask), slf.reg_max + 1),
                                     MaskedSelect(target_ltrb, a.fg_mask))
        tns      == [pred_dist |-> a.pred_dist, pred_bboxes |-> a.pred_bboxes,
                     anchor_points |-> a.anchor_points, target_bboxes |-> a.target_bboxes,
                     target_scores |-> a.target_scores,
                     target_scores_sum |-> a.target_scores_sum, fg_mask |-> a.fg_mask]
    IN  IF UseDfl(slf)
        THEN [ret |-> IF df.status = "ok"
                      THEN [status |-> "ok", loss_iou |-> loss_iou,
                            loss_dfl |-> Normalize(RSum([k \in DOMAIN weight |->
                                                        RMul(df.out[k], weight[k])]),
                                                   a.target_scores_sum)]
                      ELSE [status |-> df.status],
              locals |-> [weight |-> weight, iou |-> iou, called |-> {"bbox_iou", "bbox2dist", "_df_loss"},
                          pred_dist |-> df.pred_dist, target |-> df.target,
                          tl |-> df.tl, tr |-> df.tr, wl |-> df.wl, wr |-> df.wr],
              tensors |-> tns, self |-> slf]
        ELSE [ret |-> [status |-> "ok", loss_iou |-> loss_iou, loss_dfl |-> Zero],
              locals |-> [weight |-> weight, iou |-> iou, called |-> {"bbox_iou"}],
              tensors |-> tns, self |-> slf]

(* ------------------------- inputs of the calls ------------------------- *)
Q4(a, b, c, d) == <<FromInt(a), FromInt(b), FromInt(c), FromInt(d)>>

\* (cx, cy, w, h) boxes
WBoxes == {Q4(0, 0, 2, 2), Q4(1, 0, 2, 2), Q4(0, 0, 4, 2)}

\* eps: a positive value (as the default eps=1e-7 is), and zero
EpsValues == {Zero, Rat(1, 100)}

\* constant=12.8
DefaultConstant == Rat(64, 5)

\* exponentials of the logits ln(1/3) and ln(3)
ScoreLogits == {Rat(1, 3), FromInt(3)}

GtScores == {Zero, Rat(1, 2), One}

Labels == {Zero, One}

\* (alpha, gamma): the defaults alpha=0.75, gamma=2.0, and a second pair
VarifocalParams == {<<Rat(3, 4), 2>>, <<Rat(1, 2), 1>>}

RegMaxValues == 1..MaxRegMax

\* (x1, y1, x2, y2) boxes
BoxA == Q4(0, 0, 2, 2)

BoxB == Q4(1, 0, 3, 2)

\* per-anchor class scores
ScoresA == <<Rat(1, 2), Rat(1, 4)>>

ScoresB == <<Zero, One>>

\* target_scores_sum: positive, or zero
ScoreSums == {Zero, FromInt(2)}

\* anchor i sits at the centre (i - 1/2, 1/2) of grid cell i
AnchorGrid == [i \in 1..NAnchors |-> <<Rat(2 * i - 1, 2), Rat(1, 2)>>]

\* one anchor's 4 * (reg_max + 1) logits (as exponentials): all equal, or varied
DistA(reg_max) == [j \in 1..(4 * (reg_max + 1)) |-> 1]

DistB(reg_max) == [j \in 1..(4 * (reg_max + 1)) |-> 1 + (((j * 7) \div 3) % 3)]

AnchorInput(d, p, t, s) ==
    [pred_dist |-> d, pred_bbox |-> p, target_bbox |-> t, target_scores |-> s]

\* what one anchor contributes to the tensors given to BboxLoss.forward
AnchorInputs(reg_max) ==
    {AnchorInput(DistA(reg_max), BoxA, BoxA, ScoresA),
     AnchorInput(DistB(reg_max), BoxA, BoxB, ScoresB),
     AnchorInput(DistA(reg_max), BoxB, BoxA, ScoresB),
     AnchorInput(DistB(reg_max), BoxB, BoxB, ScoresA),
     AnchorInput(DistB(reg_max), BoxA, BoxB, ScoresA),
     AnchorInput(DistB(reg_max), BoxB, BoxB, ScoresB)}

ForwardArgs(d, target_scores_sum, fg_mask) ==
    [op |-> "BboxLoss.forward",
     pred_dist |-> [i \in DOMAIN d |-> d[i].pred_dist],
     pred_bboxes |-> [i \in DOMAIN d |-> d[i].pred_bbox],
     anchor_points |-> AnchorGrid,
     target_bboxes |-> [i \in DOMAIN d |-> d[i].target_bbox],
     target_scores |-> [i \in DOMAIN d |-> d[i].target_scores],
     target_scores_sum |-> target_scores_sum,
     fg_mask |-> fg_mask]

\* rows of reg_max + 1 logits (as exponentials)
DistRows(reg_max) ==
    {[j \in 1..(reg_max + 1) |-> 1], [j \in 1..(reg_max + 1) |-> 1 + (j % 3)]}

\* edge offsets around the ends of the bin range 0..reg_max
DfTargets(reg_max) ==
    {Rat(-1, 2), Zero, Rat(1, 4), FromInt(reg_max - 1),
     RSub(FromInt(reg_max), Rat(1, 100)), FromInt(reg_max), Rat(2 * reg_max + 1, 2)}

NoCall == [op |-> "none"]

(* ------------------------------ the program ---------------------------- *)
Init ==
    \E reg_max \in RegMaxValues, use_dfl \in BOOLEAN :
        /\ ctor = [reg_max |-> reg_max, use_dfl |-> use_dfl]
        /\ self = BboxLoss_init(reg_max, use_dfl)
        /\ pc = "idle"
        /\ args = NoCall
        /\ tensors = NoCall
        /\ locals = NoCall
        /\ ret = NoCall

Call_wasserstein_loss ==
    /\ pc = "idle"
    /\ \E pred \in [1..NRows -> WBoxes], target \in [1..NRows -> WBoxes], eps \in EpsValues :
          \E r \in {wasserstein_loss(pred, target, eps, DefaultConstant)} :
              /\ args' = [op |-> "wasserstein_loss", pred |-> pred, target |-> target,
                          eps |-> eps, constant |-> DefaultConstant]
              /\ tensors' = r.tensors
              /\ locals' = r.locals
              /\ ret' = r.ret
    /\ pc' = "returned"
    /\ UNCHANGED <<self, ctor>>

Call_VarifocalLoss_forward ==
    /\ pc = "idle"
    /\ \E pred_score \in [1..NElems -> ScoreLogits], gt_score \in [1..NElems -> GtScores],
          label \in [1..NElems -> Labels], q \in VarifocalParams :
          \E r \in {VarifocalLoss_forward(pred_score, gt_score, label, q[1], q[2])} :
              /\ args' = [op |-> "VarifocalLoss.forward", pred_score |-> pred_score,
                          gt_score |-> gt_score, label |-> label,
                          alpha |-> q[1], gamma |-> q[2]]
              /\ tensors' = r.tensors
              /\ locals' = r.locals
              /\ ret' = r.ret
    /\ pc' = "returned"
    /\ UNCHANGED <<self, ctor>>

Call_BboxLoss_df_loss ==
    /\ pc = "idle"
    /\ \E pred_dist \in [1..2 -> DistRows(self.reg_max)],
          t \in [1..2 -> DfTargets(self.reg_max)] :
          \E r \in {BboxLoss_df_loss(pred_dist, <<t>>)} :
              /\ args' = [op |-> "BboxLoss._df_loss", pred_dist |-> pred_dist, target |-> <<t>>]
              /\ tensors' = [pred_dist |-> r.pred_dist, target |-> r.target]
              /\ locals' = [pred_dist |-> r.pred_dist, target |-> r.target,
                            tl |-> r.tl, tr |-> r.tr, wl |-> r.wl, wr |-> r.wr]
              /\ ret' = [status |-> r.status, out |-> r.out]
    /\ pc' = "returned"
    /\ UNCHANGED <<self, ctor>>

Call_BboxLoss_forward ==
    /\ pc = "idle"
    /\ \E d \in [1..NAnchors -> AnchorInputs(self.reg_max)],
          target_scores_sum \in ScoreSums,
          fg_mask \in [1..NAnchors -> BOOLEAN] :
          \E a \in {ForwardArgs(d, target_scores_sum, fg_mask)} :
            \E r \in {BboxLoss_forward(self, a)} :
              /\ args' = a
              /\ tensors' = r.tensors
              /\ locals' = r.locals
              /\ ret' = r.ret
              /\ self' = r.self
    /\ pc' = "returned"
    /\ UNCHANGED ctor

\* the caller consumes the returned tensors; nothing of the call is kept
Discard ==
    /\ pc = "returned"
    /\ pc' = "idle"
    /\ args' = NoCall
    /\ tensors' = NoCall
    /\ locals' = NoCall
    /\ ret' = NoCall
    /\ UNCHANGED <<self, ctor>>

Next ==
    \/ Call_wasserstein_loss
    \/ Call_VarifocalLoss_forward
    \/ Call_BboxLoss_df_loss
    \/ Call_BboxLoss_forward
    \/ Discard

Spec == Init /\ [][Next]_vars

(* ------------------------------- claims -------------------------------- *)
Returned(op) == pc = "returned" /\ args.op = op

\* the states in which _df_loss has run: called directly, or from forward
DfLossRan ==
    \/ Returned("BboxLoss._df_loss")
    \/ Returned("BboxLoss.forward") /\ self.use_dfl

InBinRange(t) == RLe(Zero, t) /\ RLt(t, FromInt(self.reg_max))

FloorOf(t) ==
    CHOOSE k \in (-Abs(t.num) - 1)..(Abs(t.num) + 1) :
        k * t.den <= t.num /\ t.num < (k + 1) * t.den

\* C1: the loss operations are stateless: after any sequence of calls the
\* BboxLoss instance's reg_max and use_dfl equal the constructor's arguments,
\* and no argument tensor of a call has been modified by it.
C1_Stateless ==
    /\ self.reg_max = ctor.reg_max
    /\ self.use_dfl = ctor.use_dfl
    /\ DOMAIN self = {"reg_max", "use_dfl"}
    /\ Returned("wasserstein_loss") =>
          tensors = [pred |-> args.pred, target |-> args.target]
    /\ Returned("VarifocalLoss.forward") =>
          tensors = [pred_score |-> args.pred_score, gt_score |-> args.gt_score,
                     label |-> args.label]
    /\ Returned("BboxLoss._df_loss") =>
          tensors = [pred_dist |-> args.pred_dist, target |-> args.target]
    /\ Returned("BboxLoss.forward") =>
          tensors = [pred_dist |-> args.pred_dist, pred_bboxes |-> args.pred_bboxes,
                     anchor_points |-> args.anchor_points,
                     target_bboxes |-> args.target_bboxes,
                     target_scores |-> args.target_scores,
                     target_scores_sum |-> args.target_scores_sum,
                     fg_mask |-> args.fg_mask]

C1_Witness ==
    /\ Returned("BboxLoss.forward")
    /\ ctor.use_dfl
    /\ ctor.reg_max = 2
    /\ ret.status = "ok"
    /\ \E i \in DOMAIN args.fg_mask : args.fg_mask[i]

\* C2: _df_loss spreads each offset t with 0 <= t < reg_max over its two
\* neighbouring bins: tl = floor(t), tr = tl + 1, wl = tr - t, wr = 1 - wl,
\* 0 <= wr < 1, 0 < wl <= 1, wl + wr = 1, wl*tl + wr*tr = t, and an integer
\* t gets wr = 0 and wl = 1.
C2_DflSplit ==
    DfLossRan =>
      \A i \in DOMAIN locals.target : \A j \in DOMAIN locals.target[i] :
        LET t  == locals.target[i][j]
            tl == locals.tl[i][j]
            tr == locals.tr[i][j]
            wl == locals.wl[i][j]
            wr == locals.wr[i][j]
        IN  InBinRange(t) =>
              /\ tl = FloorOf(t)
              /\ tr = tl + 1
              /\ wl = RSub(FromInt(tr), t)
              /\ wr = RSub(One, wl)
              /\ RLe(Zero, wr) /\ RLt(wr, One)
              /\ RLt(Zero, wl) /\ RLe(wl, One)
              /\ RAdd(wl, wr) = One
              /\ RAdd(RMul(wl, FromInt(tl)), RMul(wr, FromInt(tr))) = t
              /\ IsInteger(t) => (wr = Zero /\ wl = One)

C2_Witness ==
    /\ Returned("BboxLoss._df_loss")
    /\ ret.status = "ok"
    /\ InBinRange(locals.target[1][1]) /\ ~IsInteger(locals.target[1][1])
    /\ locals.tl[1][1] = 1
    /\ InBinRange(locals.target[1][2]) /\ IsInteger(locals.target[1][2])

\* C3: the distribution has reg_max + 1 bins and, for every offset t with
\* 0 <= t < reg_max, both indices tl and tr that _df_loss gives to
\* cross_entropy lie in 0..reg_max (also for an integer t, whose tr has
\* weight 0), so that cross_entropy accepts them.
C3_BinsInRange ==
    DfLossRan =>
      /\ \A r \in DOMAIN locals.pred_dist : Len(locals.pred_dist[r]) = self.reg_max + 1
      /\ \A i \in DOMAIN locals.target : \A j \in DOMAIN locals.target[i] :
            InBinRange(locals.target[i][j]) =>
              /\ locals.tl[i][j] \in 0..self.reg_max
              /\ locals.tr[i][j] \in 0..self.reg_max
      /\ (\A i \in DOMAIN locals.target : \A j \in DOMAIN locals.target[i] :
            InBinRange(locals.target[i][j])) => ret.status = "ok"

C3_Witness ==
    /\ DfLossRan
    /\ ret.status = "ok"
    /\ \E i \in DOMAIN locals.target : \E j \in DOMAIN locals.target[i] :
          /\ InBinRange(locals.target[i][j])
          /\ IsInteger(locals.target[i][j])
          /\ locals.tr[i][j] = self.reg_max
          /\ locals.wr[i][j] = Zero

\* C4: VarifocalLoss.forward weights an element with label 1 by exactly
\* gt_score and an element with label 0 by exactly alpha * sigmoid(pred)^gamma,
\* and returns the sum over the elements of weight times the binary
\* cross-entropy of pred_score against gt_score.
C4_VarifocalWeights ==
    Returned("VarifocalLoss.forward") =>
      LET W(i) == IF args.label[i] = One
                  THEN args.gt_score[i]
                  ELSE RMul(args.alpha, RPow(Sigmoid(args.pred_score[i]), args.gamma))
      IN  /\ \A i \in DOMAIN args.label : locals.weight[i] = W(i)
          /\ ret = RSum([i \in DOMAIN args.label |->
                           RMul(W(i), BCEWithLogits(args.pred_score[i], args.gt_score[i]))])

C4_Witness ==
    /\ Returned("VarifocalLoss.forward")
    /\ args.label[1] = One /\ args.gt_score[1] = Rat(1, 2)
    /\ args.label[2] = Zero /\ args.gt_score[2] = Zero
    /\ RLt(Zero, locals.weight[2])
    /\ RLt(Zero, ret)

IoUSumOverForeground(a) ==
    RSum([i \in DOMAIN a.fg_mask |->
            IF a.fg_mask[i]
            THEN RMul(RSub(One, bbox_iou(a.pred_bboxes[i], a.target_bboxes[i])),
                      RSum(a.target_scores[i]))
            ELSE Zero])

SquaredDistance(a, b, eps) ==
    RAdd(RAdd(RAdd(RPow(RSub(a[1], b[1]), 2), RPow(RSub(a[2], b[2]), 2)), eps),
         RDiv(RAdd(RPow(RSub(a[3], b[3]), 2), RPow(RSub(a[4], b[4]), 2)), FromInt(4)))

\* C6: wasserstein_loss is symmetric: the squared distance of each row is
\* (dcx^2 + dcy^2 + eps) + (dw^2 + dh^2)/4, and exchanging pred and target
\* changes neither it nor the returned value.
C6_Symmetric ==
    Returned("wasserstein_loss") =>
      LET swapped == wasserstein_loss(args.target, args.pred, args.eps, args.constant)
      IN  /\ \A i \in DOMAIN args.pred :
                /\ locals.wasserstein_2[i] =
                      SquaredDistance(args.pred[i], args.target[i], args.eps)
                /\ swapped.locals.wasserstein_2[i] = locals.wasserstein_2[i]
          /\ swapped.ret = ret

C6_Witness ==
    /\ Returned("wasserstein_loss")
    /\ args.eps # Zero
    /\ args.pred[1][3] # args.target[1][3]
    /\ args.pred[2][1] # args.target[2][1]
    /\ ret[1] # One

\* C7: for eps > 0 the squared distance of every row is at least eps (so
\* positive), equals eps exactly when pred and target are the same box, and
\* a row with a larger squared distance never gets a larger returned value.
C7_Similarity ==
    Returned("wasserstein_loss") /\ RLt(Zero, args.eps) =>
      /\ \A i \in DOMAIN args.pred :
            /\ RLe(args.eps, locals.wasserstein_2[i])
            /\ RLt(Zero, locals.wasserstein_2[i])
            /\ (locals.wasserstein_2[i] = args.eps) <=> (args.pred[i] = args.target[i])
      /\ \A i, j \in DOMAIN args.pred :
            RLt(locals.wasserstein_2[j], locals.wasserstein_2[i]) => RLe(ret[i], ret[j])

C7_Witness ==
    /\ Returned("wasserstein_loss")
    /\ RLt(Zero, args.eps)
    /\ args.pred[1] = args.target[1]
    /\ args.pred[2] # args.target[2]
    /\ locals.wasserstein_2[1] = args.eps
    /\ RLt(ret[2], ret[1])

\* the arguments a with the tensors' rows of anchor i replaced by x
WithAnchor(a, i, x) ==
    [a EXCEPT !.pred_dist[i] = x.pred_dist, !.pred_bboxes[i] = x.pred_bbox,
              !.target_bboxes[i] = x.target_bbox, !.target_scores[i] = x.target_scores]

\* the rows every background anchor is given in turn
ReferenceAnchor == AnchorInput(DistA(self.reg_max), BoxA, BoxA, ScoresA)

\* C8: only foreground anchors contribute to BboxLoss.forward: giving an
\* anchor whose fg_mask is false the reference rows of pred_dist, pred_bboxes,
\* target_bboxes and target_scores, everything else the same, leaves loss_iou
\* and loss_dfl as they are. (Two calls that agree on the foreground anchors
\* and on fg_mask, target_scores_sum and anchor_points are both joined, one
\* background anchor at a time, to the same call with reference rows at all
\* background anchors, so they return the same losses.)
C8_ForegroundOnly ==
    Returned("BboxLoss.forward") =>
      \A i \in DOMAIN args.fg_mask :
        ~args.fg_mask[i] =>
          BboxLoss_forward(self, WithAnchor(args, i, ReferenceAnchor)).ret = ret

C8_Witness ==
    /\ Returned("BboxLoss.forward")
    /\ self.use_dfl
    /\ ret.status = "ok"
    /\ args.fg_mask[1] /\ ~args.fg_mask[2]
    /\ args.pred_dist[2] # ReferenceAnchor.pred_dist
    /\ args.pred_bboxes[2] # ReferenceAnchor.pred_bbox
    /\ args.target_bboxes[2] # ReferenceAnchor.target_bbox
    /\ args.target_scores[2] # ReferenceAnchor.target_scores
    /\ args.target_scores_sum = FromInt(2)
    /\ RLt(Zero, ret.loss_iou)
    /\ RLt(Zero, ret.loss_dfl)

\* C9: use_dfl only affects the DFL term: built with use_dfl = False, forward
\* returns loss_dfl = 0 and evaluates neither _df_loss nor the target distance
\* encoding, and loss_iou is the same for both settings of use_dfl.
C9_UseDflSwitch ==
    Returned("BboxLoss.forward") =>
      /\ ~ctor.use_dfl =>
            /\ ret.status = "ok"
            /\ ret.loss_dfl = Zero
            /\ locals.called \cap {"bbox2dist", "_df_loss"} = {}
      /\ ret.status = "ok" =>
            BboxLoss_forward([self EXCEPT !.use_dfl = ~self.use_dfl], args).ret.loss_iou
               = ret.loss_iou

C9_Witness ==
    /\ Returned("BboxLoss.forward")
    /\ ~ctor.use_dfl
    /\ \A i \in DOMAIN args.fg_mask : args.fg_mask[i]
    /\ args.target_scores_sum = FromInt(2)
    /\ RLt(Zero, ret.loss_iou)
    /\ ret.loss_dfl = Zero

====
